---------------------------- MODULE Spec2Model ----------------------------
(***************************************************************************)
(* Model of src/main.py: the singleton ConversationState, the asyncio lock *)
(* it carries, and the /welcome and /chat handlers with the helpers they   *)
(* call (generate_response, process_response, is_topic_change,             *)
(* needs_recommendations, detect_emotion).                                 *)
(*                                                                         *)
(* A Python str is a sequence of one-character strings.  Characters        *)
(* outside the Basic Multilingual Plane are written by code point:         *)
(* "U+1F60A" (smiling face), "U+1F539" (small blue diamond), "U+1F44B"     *)
(* (waving hand); each is ONE character of the sequence.                   *)
(***************************************************************************)
EXTENDS Naturals, Sequences, FiniteSets, TLC

VARIABLES
    state,      \* the ConversationState singleton (main.py:126)
    locks,      \* the asyncio.Lock objects ever created, by identity
    req,        \* the request tasks: position and locals of each handler run
    received,   \* how many /welcome and /chat requests have been received
    modelo      \* whether the module-level `modelo` is a model (not None)

vars == <<state, locks, req, received, modelo>>

---------------------------------------------------------------------------
(* Bounds of the model.                                                    *)

\* requests (welcome and chat together) the environment sends in a run
MaxRequests == 5

\* The request tasks that can be alive at once.
Req == {1, 2, 3}

---------------------------------------------------------------------------
(* Python built-ins on str, over the characters the model uses.            *)

UpperAlpha ==
    <<"A","B","C","D","E","F","G","H","I","J","K","L","M","N","O","P","Q","R","S","T","U","V",
      "W","X","Y","Z","Á","É","Í","Ó","Ú">>

LowerAlpha ==
    <<"a","b","c","d","e","f","g","h","i","j","k","l","m","n","o","p","q","r","s","t","u","v",
      "w","x","y","z","á","é","í","ó","ú">>

AsciiLower == {LowerAlpha[i] : i \in 1..26}

IsUpper(c) == \E i \in 1..Len(UpperAlpha) : UpperAlpha[i] = c

IsLower(c) == \E i \in 1..Len(LowerAlpha) : LowerAlpha[i] = c

IsCased(c) == IsUpper(c) \/ IsLower(c)

\* str.isspace for one character
IsSpace(c) == c \in {" ", "\n", "\t", "\r"}

LowerChar(c) ==
    IF IsUpper(c) THEN LowerAlpha[CHOOSE i \in 1..Len(UpperAlpha) : UpperAlpha[i] = c] ELSE c

UpperChar(c) ==
    IF IsLower(c) THEN UpperAlpha[CHOOSE i \in 1..Len(LowerAlpha) : LowerAlpha[i] = c] ELSE c

\* str.lower()
lower(s) == [i \in 1..Len(s) |-> LowerChar(s[i])]

\* str.capitalize(): first character upper-cased, the rest lower-cased
capitalize(s) == [i \in 1..Len(s) |-> IF i = 1 THEN UpperChar(s[i]) ELSE LowerChar(s[i])]

\* str.title(): a cased character is upper-cased when it follows an uncased
\* one (or starts the string) and lower-cased otherwise
title(s) ==
    [i \in 1..Len(s) |->
        IF i = 1 \/ ~IsCased(s[i - 1]) THEN UpperChar(s[i]) ELSE LowerChar(s[i])]

\* str.strip(): leading and trailing whitespace removed
strip(s) ==
    LET keep == {i \in 1..Len(s) : ~IsSpace(s[i])}
    IN  IF keep = {} THEN <<>>
        ELSE LET lo == CHOOSE i \in keep : \A j \in keep : i <= j
                 hi == CHOOSE i \in keep : \A j \in keep : j <= i
             IN  SubSeq(s, lo, hi)

\* `sub in s`
Contains(sub, s) ==
    \E i \in 0..(Len(s) - Len(sub)) : \A k \in 1..Len(sub) : s[i + k] = sub[k]

\* s.startswith(pre)
StartsWith(s, pre) ==
    /\ Len(pre) <= Len(s)
    /\ \A k \in 1..Len(pre) : s[k] = pre[k]

\* s.replace(a, b) for single characters a, b
replace(s, a, b) == [i \in 1..Len(s) |-> IF s[i] = a THEN b ELSE s[i]]

\* s.split(sep) for a single character sep: the pieces between separators
RECURSIVE split(_, _)
split(s, sep) ==
    LET at == {i \in 1..Len(s) : s[i] = sep}
    IN  IF at = {} THEN <<s>>
        ELSE LET i == CHOOSE k \in at : \A j \in at : k <= j
             IN  <<SubSeq(s, 1, i - 1)>> \o split(SubSeq(s, i + 1, Len(s)), sep)

\* sep.join(parts)
RECURSIVE join(_, _)
join(sep, parts) ==
    IF parts = <<>> THEN <<>>
    ELSE IF Len(parts) = 1 THEN parts[1]
    ELSE parts[1] \o sep \o join(sep, Tail(parts))

\* seq[-n:]
LastN(seq, n) == IF Len(seq) <= n THEN seq ELSE SubSeq(seq, Len(seq) - n + 1, Len(seq))

\* seq[:n]
FirstN(seq, n) == IF Len(seq) <= n THEN seq ELSE SubSeq(seq, 1, n)

\* Optional[...]: None, or a value
None == [some |-> FALSE, val |-> <<>>]

Some(v) == [some |-> TRUE, val |-> v]

\* Python truthiness of an Optional[str]: None and "" are both falsy
Truthy(o) == o.some /\ o.val # <<>>

---------------------------------------------------------------------------
(* String constants of the program.                                        *)

\* main.py:306, the reply of a failed generation
APOLOGY ==
    <<"¡","V","a","y","a","!"," ","A","l","g","o"," ","s","a","l","i","ó"," ","m","a","l",".",
      " ","P","o","r"," ","f","a","v","o","r"," ","i","n","t","é","n","t","a","l","o"," ","d",
      "e"," ","n","u","e","v","o",".">>

\* main.py:311, the reply to an empty generated text
NO_RESPONSE ==
    <<"N","o"," ","p","u","d","e"," ","g","e","n","e","r","a","r"," ","u","n","a"," ","r","e",
      "s","p","u","e","s","t","a","."," ","¿","P","u","e","d","e","s"," ","i","n","t","e","n",
      "t","a","r","l","o"," ","d","e"," ","n","u","e","v","o","?">>

\* main.py:314, the sentinel looked for in the lower-cased reply
SENTINEL_MARK ==
    <<"e","m","o","c","i","ó","n"," ","d","e","t","e","c","t","a","d","a">>

\* main.py:317, f"Emoción detectada: {emotion} \U0001F60A\n{text}"
SENTINEL_PREFIX ==
    <<"E","m","o","c","i","ó","n"," ","d","e","t","e","c","t","a","d","a",":"," ">>

SENTINEL_SUFFIX ==
    <<" ","U+1F60A","\n">>

\* main.py:320 and 322, the bullet marker and the bullet prefix of a line
BULLET ==
    <<"U+1F539">>

BULLET_PREFIX ==
    <<"U+1F539"," ">>

\* main.py:227, the greeting around the name
GREETING_HEAD ==
    <<"¡","H","o","l","a"," ">>

GREETING_TAIL ==
    <<"!"," ","U+1F44B"," ","S","o","y"," ","C","o","p","r","o","d","e","l","i","t","o",","," ",
      "t","u"," ","a","s","i","s","t","e","n","t","e"," ","e","m","o","c","i","o","n","a","l",
      "."," ","¿","C","ó","m","o"," ","t","e"," ","s","i","e","n","t","e","s"," ","h","o","y",
      "?">>

\* main.py:144, the literal tail of the e-mail pattern
EMAIL_DOMAIN ==
    <<"@","s","p","c",".","e","d","u",".","p","e">>

\* main.py:336
connectors ==
    {<<"y">>,
     <<"a","d","e","m","á","s">>,
     <<"t","a","m","b","i","é","n">>,
     <<"p","e","r","o">>,
     <<"a","u","n","q","u","e">>,
     <<"l","u","e","g","o">>}

\* main.py:341
keywords ==
    {<<"c","o","n","s","e","j","o">>,
     <<"r","e","c","o","m","e","n","d","a","c","i","ó","n">>,
     <<"q","u","é"," ","h","a","g","o">>,
     <<"a","y","u","d","a">>,
     <<"s","u","g","e","r","e","n","c","i","a">>}

---------------------------------------------------------------------------
(* The session state and the helpers of main.py.                           *)

Turn(role, content) == [role |-> role, content |-> content]

\* ConversationState.reset (main.py:117-124); `fresh` is the identity of the
\* asyncio.Lock() the call creates
reset(fresh) ==
    [history       |-> <<>>,
     emotions      |-> {},
     situations    |-> <<>>,
     student_email |-> None,
     doc_id        |-> None,
     first_message |-> None,
     lock          |-> fresh]

\* re.match(r'^[a-z]+\.[a-z]+@spc\.edu\.pe$', t) without the `$` rule
EmailPatternFull(t) ==
    \E i \in 2..Len(t) : \E j \in (i + 2)..Len(t) :
        /\ t[i] = "."
        /\ \A k \in 1..(i - 1) : t[k] \in AsciiLower
        /\ \A k \in (i + 1)..(j - 1) : t[k] \in AsciiLower
        /\ SubSeq(t, j, Len(t)) = EMAIL_DOMAIN

\* `$` also matches just before a newline that ends the string
EmailPattern(t) ==
    \/ EmailPatternFull(t)
    \/ Len(t) > 0 /\ t[Len(t)] = "\n" /\ EmailPatternFull(SubSeq(t, 1, Len(t) - 1))

\* UserRequest.validate_email (main.py:142-146): ok is FALSE when it raises
validate_email(v) ==
    [ok |-> EmailPattern(lower(v)), val |-> strip(lower(v))]

\* validate_message that only refuses the empty string
validate_message_NoStrip(v) ==
    [ok |-> v # <<>>, val |-> strip(v)]

\* ChatRequest.validate_message (main.py:132-136): ok is FALSE when it raises
validate_message(v) ==
    [ok |-> ~(v = <<>> \/ Len(strip(v)) < 1), val |-> strip(v)]

\* main.py:226, email.split('@')[0].replace('.', ' ').title()
WelcomeName(email) == title(replace(split(email, "@")[1], ".", " "))

\* main.py:227
WelcomeMessage(email) == GREETING_HEAD \o WelcomeName(email) \o GREETING_TAIL

IsUserTurn(msg) == msg.role = "user"

\* is_topic_change looking at the last three USER turns of the whole history
is_topic_change_UserTurns(history) ==
    IF Len(history) < 2 THEN TRUE
    ELSE LET users == LastN(SelectSeq(history, IsUserTurn), 3)
             last_messages == [i \in 1..Len(users) |-> lower(users[i].content)]
             joined == join(<<" ">>, last_messages)
         IN  ~(\E conn \in connectors : Contains(conn, joined))

\* is_topic_change (main.py:326-337), reading state.history
is_topic_change(history) ==
    IF Len(history) < 2 THEN TRUE
    ELSE LET users == SelectSeq(LastN(history, 3), IsUserTurn)
             last_messages == [i \in 1..Len(users) |-> lower(users[i].content)]
             joined == join(<<" ">>, last_messages)
         IN  ~(\E conn \in connectors : Contains(conn, joined))

\* needs_recommendations (main.py:339-342)
needs_recommendations(text) == \E key \in keywords : Contains(key, lower(text))

\* detect_emotion (main.py:344-355); `answer` is what the blocking call
\* modelo.generate_content gives: [ok |-> FALSE] when it raises
detect_emotion(mod, answer) ==
    IF ~mod THEN None
    ELSE IF ~answer.ok THEN None
    ELSE Some(capitalize(strip(answer.text)))

IsNonEmpty(line) == line # <<>>

\* BulletLines without the cap of three lines
BulletLines_NoCap(text) ==
    LET pieces == split(text, "\n")
        stripped == [i \in 1..Len(pieces) |-> strip(pieces[i])]
        lines == SelectSeq(stripped, IsNonEmpty)
    IN  join(<<"\n">>, [i \in 1..Len(lines) |-> BULLET_PREFIX \o lines[i]])

\* main.py:321-322, the reply rewritten as at most three bullet lines
BulletLines(text) ==
    LET pieces == split(text, "\n")
        stripped == [i \in 1..Len(pieces) |-> strip(pieces[i])]
        lines == FirstN(SelectSeq(stripped, IsNonEmpty), 3)
    IN  join(<<"\n">>, [i \in 1..Len(lines) |-> BULLET_PREFIX \o lines[i]])

\* process_response that puts the sentinel after the bullet formatting
process_response_LabelLast(text, original_msg, history, mod, answer) ==
    IF text = <<>>
    THEN [text |-> NO_RESPONSE, called |-> FALSE, emotion |-> None]
    ELSE LET detect == is_topic_change(history) /\ ~Contains(SENTINEL_MARK, lower(text))
             emotion == IF detect THEN detect_emotion(mod, answer) ELSE None
             formatted == IF needs_recommendations(original_msg) /\ ~Contains(BULLET, text)
                          THEN BulletLines(text)
                          ELSE text
             labelled == IF detect /\ Truthy(emotion)
                         THEN formatted \o <<"\n">> \o SENTINEL_PREFIX \o emotion.val
                         ELSE formatted
         IN  [text |-> labelled, called |-> detect, emotion |-> emotion]

\* process_response that labels the reply with whatever detect_emotion
\* returned, the empty string included
process_response_LabelsEmpty(text, original_msg, history, mod, answer) ==
    IF text = <<>>
    THEN [text |-> NO_RESPONSE, called |-> FALSE, emotion |-> None]
    ELSE LET detect == is_topic_change(history) /\ ~Contains(SENTINEL_MARK, lower(text))
             emotion == IF detect THEN detect_emotion(mod, answer) ELSE None
             labelled == IF detect /\ emotion.some
                         THEN SENTINEL_PREFIX \o emotion.val \o SENTINEL_SUFFIX \o text
                         ELSE text
             formatted == IF needs_recommendations(original_msg) /\ ~Contains(BULLET, labelled)
                          THEN BulletLines(labelled)
                          ELSE labelled
         IN  [text |-> formatted, called |-> detect, emotion |-> emotion]

\* process_response (main.py:308-324), reading state.history.  The result
\* holds the returned text, whether detect_emotion was called, and the
\* local `emotion`.
process_response(text, original_msg, history, mod, answer) ==
    IF text = <<>>
    THEN [text |-> NO_RESPONSE, called |-> FALSE, emotion |-> None]
    ELSE LET detect == is_topic_change(history) /\ ~Contains(SENTINEL_MARK, lower(text))
             emotion == IF detect THEN detect_emotion(mod, answer) ELSE None
             labelled == IF detect /\ Truthy(emotion)
                         THEN SENTINEL_PREFIX \o emotion.val \o SENTINEL_SUFFIX \o text
                         ELSE text
             formatted == IF needs_recommendations(original_msg) /\ ~Contains(BULLET, labelled)
                          THEN BulletLines(labelled)
                          ELSE labelled
         IN  [text |-> formatted, called |-> detect, emotion |-> emotion]

\* AppendUser that also files the utterance under situations
AppendUser_RecordsSituation(s, message) ==
    [s EXCEPT !.history = Append(@, Turn("user", message)),
              !.first_message = IF ~Truthy(@) THEN Some(message) ELSE @,
              !.situations = Append(@, message)]

\* AppendUser that keeps the latest utterance as first_message
AppendUser_LatestMessage(s, message) ==
    [s EXCEPT !.history = Append(@, Turn("user", message)),
              !.first_message = Some(message)]

\* generate_response up to its await (main.py:265-268)
AppendUser(s, message) ==
    [s EXCEPT !.history = Append(@, Turn("user", message)),
              !.first_message = IF ~Truthy(@) THEN Some(message) ELSE @]

\* AfterFailure with the apology recorded as an assistant turn
AfterFailure_AppendsApology(s) ==
    [s EXCEPT !.history = Append(@, Turn("assistant", APOLOGY))]

\* generate_response's except branch (main.py:304-306): the state is left
\* as it is
AfterFailure(s) == s

\* main.py:300, the reply appended as the assistant turn; nothing else of
\* the state is written after the await
AfterReply(s, text) == [s EXCEPT !.history = Append(@, Turn("assistant", text))]

\* ContextTurns without the window: the whole history
ContextTurns_Whole(history) == history

\* main.py:272-275, the turns the prompt's context is built from: each is
\* rendered as one "role: content" line of the prompt, in this order
ContextTurns(history) == LastN(history, 5)

\* WelcomeBody without the reset: the greeting is appended to what is there
WelcomeBody_KeepsSession(s, email, message) ==
    [s EXCEPT
        !.lock = s.lock + 1,
        !.student_email = Some(email),
        !.history = Append(@, Turn("assistant", message))]

\* main.py:229-232, the body of welcome under the lock; `message` is the
\* greeting the handler built before it asked for the lock (main.py:227)
WelcomeBody(s, email, message) ==
    [reset(s.lock + 1) EXCEPT
        !.student_email = Some(email),
        !.history = <<Turn("assistant", message)>>]

---------------------------------------------------------------------------
(* Requests, locks and the inputs the environment may send.                *)

\* every welcome that runs creates one lock
LockIds == 0..MaxRequests

\* no generation call issued: `context` is the turns the prompt is built
\* from, `text` what the call gave
NoCall == [status |-> "none", context |-> <<>>, text |-> <<>>]

NoResponse == [status |-> 0, body |-> <<>>, detail |-> ""]

\* return {"response": body}
Ok(body) == [status |-> 200, body |-> body, detail |-> ""]

\* raise HTTPException(status, detail)
HttpError(status, detail) == [status |-> status, body |-> <<>>, detail |-> detail]

IdleReq ==
    [pc       |-> "idle",
     kind     |-> "none",
     email    |-> <<>>,
     raw      |-> <<>>,
     message  |-> <<>>,
     lk       |-> 0,
     gen      |-> NoCall,
     called   |-> FALSE,
     emotion  |-> None,
     response |-> NoResponse]

\* e-mails a /welcome request may carry
EmailInputs ==
    {<<"a",".","b","@","s","p","c",".","e","d","u",".","p","e">>,
     <<"L","i",".","W","u","@","s","p","c",".","e","d","u",".","p","e","\n">>,
     <<"a","b","@","s","p","c",".","e","d","u",".","p","e">>}

\* messages a /chat request may carry
MessageInputs ==
    {<<" ","P","e","r","o"," ","m","a","l"," ">>,
     <<"g","r","a","c","i","a","s">>,
     <<" ">>}

\* outcomes of modelo.generate_content_async: a text, or an exception
GenOutcomes ==
    {[ok |-> FALSE, text |-> <<>>],
     [ok |-> TRUE, text |-> <<" ","E","n","t","i","e","n","d","o",".","\n">>]}

\* outcomes of the blocking modelo.generate_content in detect_emotion
EmotionAnswers ==
    {[ok |-> FALSE, text |-> <<>>],
     [ok |-> TRUE, text |-> <<" ","t","r","i","s","t","e","z","a","\n">>]}

\* asyncio.Lock.acquire returns without suspending when the lock is free and
\* nobody waits for it
CanAcquireNow(l) == ~locks[l].locked /\ locks[l].waiters = <<>>

\* a suspended acquire resumes when the lock was released and its waiter is
\* the first of the queue (asyncio.Lock._wake_up_first)
CanResume(p) ==
    /\ req[p].pc = "waiting"
    /\ ~locks[req[p].lk].locked
    /\ locks[req[p].lk].waiters # <<>>
    /\ Head(locks[req[p].lk].waiters) = p

Enqueued(ls, l, p) == [ls EXCEPT ![l].waiters = Append(@, p)]

Dequeued(ls, l) == [ls EXCEPT ![l].waiters = Tail(@)]

Acquired(ls, l) == [ls EXCEPT ![l].locked = TRUE]

\* Released that leaves the lock held
Released_StaysLocked(ls, l) == ls

\* asyncio.Lock.release, as `async with` runs it on every exit
Released(ls, l) == [ls EXCEPT ![l].locked = FALSE]

\* A request takes the lowest free slot: the slots are interchangeable, so
\* this loses no behaviour.
Free(p) ==
    /\ req[p].pc \in {"idle", "done"}
    /\ \A q \in Req : q < p => req[q].pc \notin {"idle", "done"}

\* The record of a finished request (its response, its locals) is kept until
\* the next step of any task, then dropped: the response has left with the
\* transport and the slot is free again.
Retired == [q \in Req |-> IF req[q].pc = "done" THEN IdleReq ELSE req[q]]

---------------------------------------------------------------------------
(* Construction.                                                           *)

Init ==
    /\ state = reset(0)
    /\ locks = [l \in LockIds |-> [locked |-> FALSE, waiters |-> <<>>]]
    /\ req = [p \in Req |-> IdleReq]
    /\ received = 0
    /\ modelo \in BOOLEAN

---------------------------------------------------------------------------
(* The handlers.  One action runs a task from one suspension point to the  *)
(* next: asyncio switches tasks only at an await that suspends.            *)

\* welcome, main.py:229-234: the body under the lock and the return; `ls` is
\* the lock table once the task has the lock, `message` the local of that
\* name (main.py:227)
WelcomeLocked(p, email, message, ls) ==
    /\ state' = WelcomeBody(state, email, message)
    /\ locks' = ls
    /\ req' = [Retired EXCEPT ![p] =
                  [IdleReq EXCEPT !.pc = "done", !.kind = "welcome", !.email = email,
                                  !.message = message, !.lk = state.lock,
                                  !.response = Ok(message)]]

\* POST /welcome (main.py:222-238), from the request to the first suspension
Welcome(p, raw) ==
    /\ Free(p)
    /\ received < MaxRequests
    /\ received' = received + 1
    /\ UNCHANGED modelo
    /\ LET v == validate_email(raw)
       IN  IF ~v.ok
           THEN /\ req' = [Retired EXCEPT ![p] =
                              [IdleReq EXCEPT !.pc = "done", !.kind = "welcome",
                                  !.response = HttpError(500, "Error al generar bienvenida")]]
                /\ UNCHANGED <<state, locks>>
           ELSE IF CanAcquireNow(state.lock)
           THEN WelcomeLocked(p, v.val, WelcomeMessage(v.val), locks)
           ELSE /\ locks' = Enqueued(locks, state.lock, p)
                /\ req' = [Retired EXCEPT ![p] =
                              [IdleReq EXCEPT !.pc = "waiting", !.kind = "welcome",
                                              !.email = v.val,
                                              !.message = WelcomeMessage(v.val),
                                              !.lk = state.lock]]
                /\ UNCHANGED state

\* welcome resumed inside `async with state.lock` once the lock is its own
WelcomeResume(p) ==
    /\ CanResume(p)
    /\ req[p].kind = "welcome"
    /\ state' = WelcomeBody(state, req[p].email, req[p].message)
    /\ locks' = Dequeued(locks, req[p].lk)
    /\ req' = [Retired EXCEPT ![p].pc = "done",
                          ![p].response = Ok(req[p].message)]
    /\ UNCHANGED <<received, modelo>>

\* ChatLocked without the check of student_email
ChatLocked_NoSessionCheck(p, raw, message, l, ls) ==
    /\ state' = AppendUser(state, message)
    /\ locks' = Acquired(ls, l)
    /\ req' = [Retired EXCEPT ![p] =
                  [IdleReq EXCEPT !.pc = "generating", !.kind = "chat", !.raw = raw,
                      !.message = message, !.lk = l,
                      !.gen = [status |-> "pending",
                               context |-> ContextTurns(state'.history),
                               text |-> <<>>]]]

\* chat, main.py:249-253 with generate_response up to its await
\* (main.py:265-285); `ls` is the lock table once the task has the lock, l
\* the lock it took, raw the message as it was sent (chat_data.message)
ChatLocked(p, raw, message, l, ls) ==
    IF ~Truthy(state.student_email)
    THEN /\ req' = [Retired EXCEPT ![p] =
                       [IdleReq EXCEPT !.pc = "done", !.kind = "chat", !.raw = raw,
                                       !.message = message, !.lk = l,
                                       !.response = HttpError(400, "Sesión no iniciada")]]
         /\ locks' = Released(ls, l)
         /\ UNCHANGED state
    ELSE /\ state' = AppendUser(state, message)
         /\ locks' = Acquired(ls, l)
         /\ req' = [Retired EXCEPT ![p] =
                       [IdleReq EXCEPT !.pc = "generating", !.kind = "chat", !.raw = raw,
                           !.message = message, !.lk = l,
                           !.gen = [status |-> "pending",
                                    context |-> ContextTurns(state'.history),
                                    text |-> <<>>]]]

\* POST /chat (main.py:240-260), from the request to the first suspension
Chat(p, raw) ==
    /\ Free(p)
    /\ received < MaxRequests
    /\ received' = received + 1
    /\ UNCHANGED modelo
    /\ LET v == validate_message(raw)
       IN  IF ~modelo
           THEN /\ req' = [Retired EXCEPT ![p] =
                              [IdleReq EXCEPT !.pc = "done", !.kind = "chat", !.raw = raw,
                                  !.response = HttpError(503, "Servicio de IA no disponible")]]
                /\ UNCHANGED <<state, locks>>
           ELSE IF ~v.ok
           THEN /\ req' = [Retired EXCEPT ![p] =
                              [IdleReq EXCEPT !.pc = "done", !.kind = "chat", !.raw = raw,
                                  !.response = HttpError(500, "Error procesando mensaje")]]
                /\ UNCHANGED <<state, locks>>
           ELSE IF CanAcquireNow(state.lock)
           THEN ChatLocked(p, raw, v.val, state.lock, locks)
           ELSE /\ locks' = Enqueued(locks, state.lock, p)
                /\ req' = [Retired EXCEPT ![p] =
                              [IdleReq EXCEPT !.pc = "waiting", !.kind = "chat", !.raw = raw,
                                              !.message = v.val, !.lk = state.lock]]
                /\ UNCHANGED state

\* chat resumed inside `async with state.lock` once the lock is its own
ChatResume(p) ==
    /\ CanResume(p)
    /\ req[p].kind = "chat"
    /\ ChatLocked(p, req[p].raw, req[p].message, req[p].lk, Dequeued(locks, req[p].lk))
    /\ UNCHANGED <<received, modelo>>

\* The await of main.py:285 ends with `outcome` and generate_response runs
\* on (main.py:296-306) to the return of chat and the release of the lock
\* (main.py:254); `answer` is what detect_emotion's blocking call gives if
\* it is made.
ChatFinish(p, outcome, answer) ==
    /\ req[p].pc = "generating"
    /\ locks' = Released(locks, req[p].lk)
    /\ UNCHANGED <<received, modelo>>
    /\ IF ~outcome.ok
       THEN /\ req' = [Retired EXCEPT ![p].pc = "done", ![p].gen.status = "fail",
                                      ![p].response = Ok(APOLOGY)]
            /\ state' = AfterFailure(state)
       ELSE LET text == strip(outcome.text)
                r == process_response(text, req[p].message, state.history, modelo, answer)
            IN  /\ state' = AfterReply(state, r.text)
                /\ req' = [Retired EXCEPT ![p].pc = "done", ![p].gen.status = "ok",
                                      ![p].gen.text = outcome.text,
                                      ![p].called = r.called,
                                      ![p].emotion = r.emotion,
                                      ![p].response = Ok(r.text)]

Next ==
    \/ \E p \in Req : \E raw \in EmailInputs : Welcome(p, raw)
    \/ \E p \in Req : WelcomeResume(p)
    \/ \E p \in Req : \E raw \in MessageInputs : Chat(p, raw)
    \/ \E p \in Req : ChatResume(p)
    \/ \E p \in Req : \E outcome \in GenOutcomes : \E answer \in EmotionAnswers :
            ChatFinish(p, outcome, answer)

Spec == Init /\ [][Next]_vars

---------------------------------------------------------------------------
(* Properties of the concurrent system, Spec.                              *)

\* the request p is inside generate_response: its user turn is appended and
\* it has not returned
InTurn(p) == req[p].pc = "generating"

\* the step made request p return
Returned(p) == req[p].pc = "done"

\* C1: turns are serialized: at no time are two chat turns both inside
\* generate_response, also when welcome's reset() has replaced state.lock
\* while requests were queued on the previous lock.
C1_TurnsSerialized ==
    \A p \in Req : \A q \in Req : (InTurn(p) /\ InTurn(q)) => p = q

\* the utterance matches a gratitude keyword (case-insensitive substring)
is_thanks(text) == Contains(<<"g","r","a","c","i","a","s">>, lower(text))

\* C2: a chat turn whose utterance matches a gratitude keyword returns at
\* once, without a generation call, and leaves history, emotions and
\* situations exactly as they were.
C2_GratitudeLeavesSession ==
    [][\A p \in Req :
          (req'[p] # req[p] /\ req'[p].kind = "chat" /\ is_thanks(req'[p].message)
              /\ req'[p].pc \in {"generating", "done"})
          => /\ req'[p].pc = "done"
             /\ state'.history = state.history
             /\ state'.emotions = state.emotions
             /\ state'.situations = state.situations]_vars

\* C3: when the text-generation call of a turn fails, the turn returns the
\* canned apology, history gains no assistant turn, emotions and situations
\* are unchanged and no document is written.
C3_FailedGeneration ==
    [][\A p \in Req :
          (InTurn(p) /\ req'[p].pc = "done" /\ req'[p].gen.status = "fail")
          => /\ req'[p].response = Ok(APOLOGY)
             /\ state'.history = state.history
             /\ state'.emotions = state.emotions
             /\ state'.situations = state.situations
             /\ state'.doc_id = state.doc_id]_vars

\* a failed turn has just returned: its user turn is the last of history
C3_Witness ==
    \E p \in Req :
        /\ Returned(p) /\ req[p].kind = "chat" /\ req[p].gen.status = "fail"
        /\ req[p].response = Ok(APOLOGY)
        /\ state.history # <<>>
        /\ state.history[Len(state.history)] = Turn("user", req[p].message)

\* C4: in every reachable state situations has as many entries as emotions.
C4_ParallelLengths == Len(state.situations) = Cardinality(state.emotions)

\* a turn that obtained an emotion label has returned, and a turn has
\* failed before it in the same session
C4_Witness ==
    /\ \E p \in Req : Returned(p) /\ req[p].gen.status = "ok" /\ Truthy(req[p].emotion)
    /\ Len(state.history) >= 4
    /\ Len(state.situations) = Cardinality(state.emotions)

\* C5: after a welcome and a first chat turn whose generation succeeds and
\* whose emotion extraction yields a non-empty label L, emotions contains L
\* and situations is the one-element list of that turn's utterance.
C5_FirstEmotionRecorded ==
    \A p \in Req :
        (/\ Returned(p) /\ req[p].kind = "chat" /\ req[p].gen.status = "ok"
         /\ req[p].called /\ Truthy(req[p].emotion)
         /\ Len(state.history) = 3
         /\ state.history[2] = Turn("user", req[p].message))
        => /\ req[p].emotion.val \in state.emotions
           /\ state.situations = <<req[p].message>>

\* C6: in the first turn of a session that obtains an emotion label a
\* document is created and the session's document reference becomes set.
C6_DocumentCreated ==
    \A p \in Req :
        (/\ Returned(p) /\ req[p].kind = "chat" /\ req[p].gen.status = "ok"
         /\ req[p].called /\ Truthy(req[p].emotion))
        => state.doc_id # None

\* the step made a welcome return its greeting
WelcomeReturned(p) ==
    /\ req'[p] # req[p]
    /\ req'[p].pc = "done"
    /\ req'[p].kind = "welcome"
    /\ req'[p].response.status = 200

\* C10: right after a welcome completes, whatever the state before, history
\* is the one assistant turn holding the welcome message, emotions and
\* situations are empty, doc_id and first_message are unset and
\* student_email is the welcome's e-mail; and no other operation changes
\* student_email.
C10_WelcomeResets ==
    [][/\ \A p \in Req :
            WelcomeReturned(p)
            => /\ state'.history = <<Turn("assistant", req'[p].response.body)>>
               /\ req'[p].response.body =
                    GREETING_HEAD \o WelcomeName(req'[p].email) \o GREETING_TAIL
               /\ state'.emotions = {}
               /\ state'.situations = <<>>
               /\ state'.doc_id = None
               /\ state'.first_message = None
               /\ state'.student_email = Some(req'[p].email)
       /\ (~\E p \in Req : WelcomeReturned(p))
            => state'.student_email = state.student_email]_vars

\* a second welcome, for another student, has just completed while a chat
\* turn of the previous session is still inside generate_response
C10_Witness ==
    \E p \in Req :
        /\ \E q \in Req : InTurn(q)
        /\ Returned(p) /\ req[p].kind = "welcome" /\ req[p].response.status = 200
        /\ state.lock >= 2
        /\ state.student_email = Some(<<"l","i",".","w","u","@","s","p","c",".","e","d","u",".","p","e">>)
        /\ Len(state.history) = 1

---------------------------------------------------------------------------
(* Progress, SpecFair.  The event loop runs every task that is ready (a    *)
(* waiter woken by a release is scheduled with call_soon), and every       *)
(* generation call returns or fails (it carries timeout=30, main.py:287).  *)

\* a step of a task that is ready to run on: a woken waiter, or a turn
\* whose generation call ends
Runs ==
    \E p \in Req :
        \/ WelcomeResume(p)
        \/ ChatResume(p)
        \/ \E outcome \in GenOutcomes : \E answer \in EmotionAnswers :
               ChatFinish(p, outcome, answer)

Fairness == WF_vars(Runs)

\* Which lock a request takes, waits for or releases does not depend on the
\* texts it carries, only on whether they are valid and on how the
\* generation ends: one text of each kind is sent.
FairEmails ==
    {<<"a",".","b","@","s","p","c",".","e","d","u",".","p","e">>,
     <<"a","b","@","s","p","c",".","e","d","u",".","p","e">>}

FairMessages ==
    {<<"g","r","a","c","i","a","s">>,
     <<" ">>}

FairAnswers ==
    {[ok |-> FALSE, text |-> <<>>]}

NextFair ==
    \/ \E p \in Req : \E raw \in FairEmails : Welcome(p, raw)
    \/ \E p \in Req : WelcomeResume(p)
    \/ \E p \in Req : \E raw \in FairMessages : Chat(p, raw)
    \/ \E p \in Req : ChatResume(p)
    \/ \E p \in Req : \E outcome \in GenOutcomes : \E answer \in FairAnswers :
            ChatFinish(p, outcome, answer)

SpecFair == Init /\ [][NextFair]_vars /\ Fairness

\* the lock l is held by a request that is inside its `async with` block
HeldByRunner(l) == \E p \in Req : InTurn(p) /\ req[p].lk = l

\* C11: the lock is released on every exit path of welcome and chat: a lock
\* is held only by a turn that is still running, and every request that
\* waits for a lock or has a generation call pending eventually completes,
\* also when it is queued on a lock that a welcome has since replaced.
C11_LockReleasedAndProgress ==
    /\ [](\A l \in LockIds : locks[l].locked => HeldByRunner(l))
    /\ \A p \in Req : (req[p].pc \in {"waiting", "generating"}) ~> (req[p].pc = "done")

\* a chat that was queued on a lock a welcome has since replaced has taken
\* that lock, run its turn and returned, and the lock is free again
C11_Witness ==
    \E p \in Req :
        /\ Returned(p) /\ req[p].kind = "chat" /\ req[p].gen.status \in {"ok", "fail"}
        /\ req[p].lk < state.lock
        /\ ~locks[req[p].lk].locked

---------------------------------------------------------------------------
(* The end of a turn on its own, SpecTurn: a request is inside             *)
(* generate_response, awaiting the generation call, after any session of   *)
(* up to MaxTurns earlier turns that one client can have had (the          *)
(* greeting, then user turns, each answered by an assistant turn or, when  *)
(* its generation failed, by none); the call ends and the turn runs to its *)
(* return.                                                                 *)

\* turns of the session before the turn in flight, after the greeting
MaxTurns == 4

TurnPool ==
    {Turn("user", <<"t","r","i","s","t","e">>),
     Turn("user", <<"P","e","r","o"," ","m","a","l">>),
     Turn("assistant", <<"E","n","t","i","e","n","d","o",".">>)}

\* validated utterances of the request in flight
TurnMessages ==
    {<<"t","r","i","s","t","e">>,
     <<"P","e","r","o"," ","m","a","l">>,
     <<"u","n"," ","c","o","n","s","e","j","o">>,
     <<"A","Y","U","D","A">>}

TurnOutcomes ==
    {[ok |-> FALSE, text |-> <<>>],
     [ok |-> TRUE, text |-> <<"E","n","t","i","e","n","d","o",".">>],
     [ok |-> TRUE, text |-> <<" ","\n">>],
     [ok |-> TRUE, text |-> <<"u","n","o","\n"," ","d","o","s"," ","\n","\n","t","r","e","s","\n","c","u","a","t","r","o">>],
     [ok |-> TRUE, text |-> <<"U+1F539"," ","u","n","o","\n","d","o","s">>],
     [ok |-> TRUE, text |-> <<"E","M","O","C","I","Ó","N"," ","D","E","T","E","C","T","A","D","A",":"," ","p","e","n","a","\n","á","n","i","m","o">>]}

TurnAnswers ==
    {[ok |-> FALSE, text |-> <<>>],
     [ok |-> TRUE, text |-> <<" ","t","r","i","s","t","e","z","a","\n">>],
     [ok |-> TRUE, text |-> <<>>],
     [ok |-> TRUE, text |-> <<"m","u","y"," ","\n","t","r","i","s","t","e">>]}

TurnEmail == <<"a",".","b","@","s","p","c",".","e","d","u",".","p","e">>

\* every assistant turn answers the user turn right before it
Answered(h) ==
    \A i \in 1..Len(h) : h[i].role = "assistant" => (i > 1 /\ h[i - 1].role = "user")

DrawnHistories == {h \in UNION {[1..n -> TurnPool] : n \in 0..MaxTurns} : Answered(h)}

\* state.first_message as generate_response leaves it: the first user turn
\* since the welcome
FirstUserMessage(h) ==
    LET users == SelectSeq(h, IsUserTurn)
    IN  IF users = <<>> THEN None ELSE Some(users[1].content)

InitTurn ==
    \E h \in DrawnHistories : \E m \in TurnMessages :
        /\ state = [reset(1) EXCEPT
                       !.student_email = Some(TurnEmail),
                       !.history = <<Turn("assistant", WelcomeMessage(TurnEmail))>> \o h
                                       \o <<Turn("user", m)>>,
                       !.first_message = FirstUserMessage(h \o <<Turn("user", m)>>)]
        /\ locks = [l \in LockIds |-> [locked |-> (l = 1), waiters |-> <<>>]]
        /\ req = [p \in Req |->
                    IF p = 1
                    THEN [IdleReq EXCEPT !.pc = "generating", !.kind = "chat",
                                         !.raw = m, !.message = m, !.lk = 1,
                                         !.gen = [status |-> "pending",
                                                  context |-> ContextTurns(state.history),
                                                  text |-> <<>>]]
                    ELSE IdleReq]
        /\ received = 2
        /\ modelo = TRUE

NextTurn ==
    \E p \in Req : \E outcome \in TurnOutcomes : \E answer \in TurnAnswers :
        ChatFinish(p, outcome, answer)

SpecTurn == InitTurn /\ [][NextTurn]_vars

\* the generated text of the turn p has just ended, trimmed (main.py:296)
ReplyOf(r) == strip(r.gen.text)

\* that reply with the sentinel line the turn put before it, if any
LabelledReplyOf(r) ==
    IF Truthy(r.emotion)
    THEN SENTINEL_PREFIX \o r.emotion.val \o SENTINEL_SUFFIX \o ReplyOf(r)
    ELSE ReplyOf(r)

\* the step ended the generation call of p with a text and p returned
ReturnedReply(p) ==
    /\ InTurn(p)
    /\ req'[p].pc = "done"
    /\ req'[p].gen.status = "ok"

\* C7 as claimed: on every turn where the topic changed, the reply holds no
\* sentinel and extraction yields a label L, the returned text begins with
\* "Emoción detectada: L", whatever the utterance.
C7_SentinelFirst ==
    [][\A p \in Req :
          (/\ ReturnedReply(p)
           /\ is_topic_change(state.history)
           /\ ~Contains(SENTINEL_MARK, lower(ReplyOf(req'[p])))
           /\ Truthy(req'[p].emotion))
          => StartsWith(req'[p].response.body, SENTINEL_PREFIX \o req'[p].emotion.val)]_vars

\* C7: on such a turn the returned text begins with "Emoción detectada: L",
\* except when the utterance requests advice and the reply with its sentinel
\* holds no bullet marker: then it begins with the bullet prefix followed by
\* "Emoción detectada: " and the first line of L.
C7_SentinelFirstUnlessBulleted ==
    [][\A p \in Req :
          (/\ ReturnedReply(p)
           /\ is_topic_change(state.history)
           /\ ~Contains(SENTINEL_MARK, lower(ReplyOf(req'[p])))
           /\ Truthy(req'[p].emotion))
          => IF /\ needs_recommendations(req'[p].message)
                /\ ~Contains(BULLET, LabelledReplyOf(req'[p]))
             THEN StartsWith(req'[p].response.body,
                             <<"U+1F539", " ">> \o SENTINEL_PREFIX
                                 \o strip(split(req'[p].emotion.val, "\n")[1]))
             ELSE StartsWith(req'[p].response.body,
                             SENTINEL_PREFIX \o req'[p].emotion.val)]_vars

\* a turn asking for advice has returned a bulleted reply whose first bullet
\* is the sentinel line
C7_Witness ==
    \E p \in Req :
        /\ Returned(p) /\ req[p].gen.status = "ok" /\ Truthy(req[p].emotion)
        /\ needs_recommendations(req[p].message)
        /\ StartsWith(req[p].response.body, <<"U+1F539", " ">> \o SENTINEL_PREFIX)

\* the non-empty trimmed lines of a text
NonEmptyLines(text) ==
    LET pieces == split(text, "\n")
    IN  SelectSeq([i \in 1..Len(pieces) |-> strip(pieces[i])], IsNonEmpty)

\* `body` is the first up-to-3 lines of `src`, each behind the bullet marker
IsBulletedHead(body, src) ==
    IF src = <<>> THEN body = <<>>
    ELSE LET out == split(body, "\n")
         IN  /\ Len(out) = (IF Len(src) < 3 THEN Len(src) ELSE 3)
             /\ \A i \in 1..Len(out) : out[i] = <<"U+1F539", " ">> \o src[i]

\* C8 as claimed: when the utterance requests advice and the reply (after
\* any sentinel) holds no bullet marker, the returned text is at most 3
\* lines, each behind the bullet marker: the first up-to-3 non-empty trimmed
\* lines of the reply.
C8_AdviceBullets ==
    \A p \in Req :
        (/\ Returned(p) /\ req[p].kind = "chat" /\ req[p].gen.status = "ok"
         /\ needs_recommendations(req[p].message)
         /\ ~Contains(BULLET, LabelledReplyOf(req[p])))
        => IsBulletedHead(req[p].response.body, NonEmptyLines(LabelledReplyOf(req[p])))

\* C8: the same, for a generated reply that is not empty after trimming (an
\* empty one is answered by the fixed "No pude generar una respuesta" text).
C8_AdviceBulletsNonEmpty ==
    \A p \in Req :
        (/\ Returned(p) /\ req[p].kind = "chat" /\ req[p].gen.status = "ok"
         /\ needs_recommendations(req[p].message)
         /\ ReplyOf(req[p]) # <<>>
         /\ ~Contains(BULLET, LabelledReplyOf(req[p])))
        => IsBulletedHead(req[p].response.body, NonEmptyLines(LabelledReplyOf(req[p])))

\* an advice turn has returned three bullets out of a reply of more lines
C8_Witness ==
    \E p \in Req :
        /\ Returned(p) /\ req[p].gen.status = "ok"
        /\ needs_recommendations(req[p].message)
        /\ ~Contains(BULLET, LabelledReplyOf(req[p]))
        /\ Len(NonEmptyLines(LabelledReplyOf(req[p]))) > 3
        /\ Len(split(req[p].response.body, "\n")) = 3

\* a connector occurs in one of the user turns of `turns`
HasConnector(turns) ==
    \E i \in 1..Len(turns) : \E conn \in connectors :
        turns[i].role = "user" /\ Contains(conn, lower(turns[i].content))

\* C9 as claimed: is_topic_change is true when history has fewer than 2
\* turns, false when a connector appears in any of the last up-to-3 user
\* turns (however many assistant turns lie between them), true otherwise.
C9_TopicChangeUserTurns ==
    is_topic_change(state.history)
        = (\/ Len(state.history) < 2
           \/ ~HasConnector(LastN(SelectSeq(state.history, IsUserTurn), 3)))

\* C9: is_topic_change is true when history has fewer than 2 turns, false
\* when a connector appears in a user turn among the last 3 turns of
\* history, true otherwise.
C9_TopicChangeLastThree ==
    is_topic_change(state.history)
        = (\/ Len(state.history) < 2
           \/ ~HasConnector(LastN(state.history, 3)))

\* a turn has just returned with a connector in one of the last three user
\* turns but in none of the last three turns, and the topic counts as changed
C9_Witness ==
    /\ \E p \in Req : Returned(p) /\ req[p].gen.status = "ok"
    /\ Len(state.history) >= 5
    /\ HasConnector(LastN(SelectSeq(state.history, IsUserTurn), 3))
    /\ ~HasConnector(LastN(state.history, 3))
    /\ is_topic_change(state.history)

---------------------------------------------------------------------------
(* Rejected requests and turns in flight, under Spec.                      *)

\* the step received a /chat request, which runs in slot p
ChatReceived(p) ==
    /\ received' = received + 1
    /\ Free(p)
    /\ req'[p].kind = "chat"

\* C12: a chat request whose message is empty after trimming is rejected
\* with an error and mutates nothing: history, emotions, situations,
\* first_message and student_email are unchanged and no lock is acquired or
\* queued on for it.
C12_EmptyMessageRejected ==
    [][\A p \in Req :
          (ChatReceived(p) /\ strip(req'[p].raw) = <<>>)
          => /\ req'[p].pc = "done"
             /\ req'[p].response.status >= 400
             /\ req'[p].response.body = <<>>
             /\ state'.history = state.history
             /\ state'.emotions = state.emotions
             /\ state'.situations = state.situations
             /\ state'.first_message = state.first_message
             /\ state'.student_email = state.student_email
             /\ locks' = locks]_vars

\* a blank message has been rejected as "Error procesando mensaje" in an
\* open session, while a turn of that session holds the lock
C12_Witness ==
    \E p \in Req :
        /\ Returned(p) /\ req[p].kind = "chat"
        /\ req[p].raw # <<>> /\ strip(req[p].raw) = <<>>
        /\ req[p].response = HttpError(500, "Error procesando mensaje")
        /\ Truthy(state.student_email)
        /\ \E q \in Req : InTurn(q) /\ locks[req[q].lk].locked

\* C13: no welcome or other request modifies the session while a chat turn
\* is in flight: from the step that appends its user turn to its return,
\* history, student_email and first_message change by that turn only, so
\* the reply of a successful turn lands right after that turn's user turn.
C13_TurnUndisturbed ==
    [][\A p \in Req :
          InTurn(p)
          => IF req'[p].pc = "generating"
             THEN /\ state'.history = state.history
                  /\ state'.student_email = state.student_email
                  /\ state'.first_message = state.first_message
             ELSE req'[p].gen.status = "ok"
                  => /\ state.history # <<>>
                     /\ state.history[Len(state.history)] = Turn("user", req[p].message)
                     /\ state'.history =
                          Append(state.history, Turn("assistant", req'[p].response.body))]_vars

\* C14: the topic-change decision applied to the reply of a turn is the
\* value is_topic_change had on the history right after the turn's user
\* turn was appended, before the generation call.  (The context of the call
\* is the last 5 turns of that history, and is_topic_change depends on
\* whether there are fewer than 2 turns and on the last 3 only, so it has
\* the same value on both.)  For a reply that is not empty and holds no
\* sentinel, the decision is whether detect_emotion is called.
C14_DecisionBeforeCall ==
    [][\A p \in Req :
          (/\ ReturnedReply(p)
           /\ ReplyOf(req'[p]) # <<>>
           /\ ~Contains(SENTINEL_MARK, lower(ReplyOf(req'[p]))))
          => req'[p].called = is_topic_change(req[p].gen.context)]_vars

\* a connector occurs in the utterance (case-insensitive substring)
UtteranceHasConnector(message) ==
    \E conn \in connectors : Contains(conn, lower(message))

\* C15: detect_emotion is invoked in a turn only if is_topic_change is true
\* and the generated reply holds no sentinel; on a turn whose utterance
\* contains a connector no extraction is invoked, no sentinel is put before
\* the reply and emotions is unchanged.
C15_ExtractionOnlyOnTopicChange ==
    [][\A p \in Req :
          ReturnedReply(p)
          => /\ req'[p].called
                => /\ is_topic_change(state.history)
                   /\ ~Contains(SENTINEL_MARK, lower(ReplyOf(req'[p])))
             /\ UtteranceHasConnector(req[p].message)
                => /\ ~req'[p].called
                   /\ LabelledReplyOf(req'[p]) = ReplyOf(req'[p])
                   /\ state'.emotions = state.emotions]_vars

\* C16: if emotion extraction fails or returns an empty label in a turn
\* whose generation succeeded, the turn does not fail: the reply is returned
\* without an emotion sentinel (as generated, unless the utterance asks for
\* advice and it is bulleted), it is appended to history as the assistant
\* turn, and emotions and situations are unchanged.
C16_ExtractionFailureTolerated ==
    [][\A p \in Req :
          (ReturnedReply(p) /\ req'[p].called /\ ~Truthy(req'[p].emotion))
          => /\ req'[p].response.status = 200
             /\ ~Contains(SENTINEL_MARK, lower(req'[p].response.body))
             /\ ~needs_recommendations(req[p].message)
                => req'[p].response.body = ReplyOf(req'[p])
             /\ state'.history =
                  Append(state.history, Turn("assistant", req'[p].response.body))
             /\ state'.emotions = state.emotions
             /\ state'.situations = state.situations]_vars

\* a turn whose emotion extraction failed has returned the generated reply
\* as it was, and that reply is the last turn of history
C16_Witness ==
    \E p \in Req :
        /\ Returned(p) /\ req[p].gen.status = "ok"
        /\ req[p].called /\ req[p].emotion = None
        /\ req[p].response = Ok(ReplyOf(req[p]))
        /\ ReplyOf(req[p]) # <<>>
        /\ state.history[Len(state.history)] = Turn("assistant", ReplyOf(req[p]))

\* C17: in every reachable state first_message is unset or is the text of
\* the first user turn appended since the last welcome (the first user turn
\* of history), and once set it does not change until the next welcome.
C17_FirstMessageIsFirstUserTurn ==
    /\ [](\/ state.first_message = None
          \/ state.first_message = FirstUserMessage(state.history))
    /\ [][(Truthy(state.first_message) /\ ~(\E p \in Req : WelcomeReturned(p)))
            => state'.first_message = state.first_message]_vars

\* the session has had two user turns with different texts, and
\* first_message is the first of them
C17_Witness ==
    LET users == SelectSeq(state.history, IsUserTurn)
    IN  /\ Len(users) >= 2
        /\ users[2].content # users[1].content
        /\ state.first_message = Some(users[1].content)

\* the step issued the generation call of chat p
CallIssued(p) == req[p].pc # "generating" /\ req'[p].pc = "generating"

\* C18: the context passed to the generation call is exactly the last
\* min(5, len(history)) turns of history in chronological order, taken after
\* the current user turn was appended: its last entry is the current
\* utterance and it never holds more than 5 turns.
C18_ContextWindow ==
    [][\A p \in Req :
          CallIssued(p)
          => LET ctx == req'[p].gen.context
                 h == state'.history
                 n == IF Len(h) < 5 THEN Len(h) ELSE 5
             IN  /\ Len(ctx) = n
                 /\ \A i \in 1..n : ctx[i] = h[Len(h) - n + i]
                 /\ n >= 1
                 /\ ctx[n] = Turn("user", req'[p].message)
                 /\ Len(ctx) <= 5]_vars

\* a generation call is pending with a context of 5 turns cut out of a
\* longer history
C18_Witness ==
    \E p \in Req :
        /\ InTurn(p)
        /\ Len(state.history) > 5
        /\ Len(req[p].gen.context) = 5
        /\ req[p].gen.context = SubSeq(state.history, Len(state.history) - 4, Len(state.history))

\* the step brought chat p to the check of student_email (main.py:249): its
\* message is valid and the model available, and it got the lock at once or
\* after waiting for it
ChatChecked(p) ==
    /\ req'[p].kind = "chat"
    /\ req'[p].pc \in {"generating", "done"}
    /\ \/ ChatReceived(p) /\ modelo /\ strip(req'[p].raw) # <<>>
       \/ req[p].pc = "waiting" /\ req[p].kind = "chat"

\* C19: a chat request that reaches the session check when no welcome has
\* set student_email is rejected with 400 "Sesión no iniciada"; no user turn
\* is appended, no generation call is made, and history, emotions,
\* situations and first_message are unchanged.  Conversely every step of a
\* turn that appends to history runs while student_email is set.
C19_NoSessionRejected ==
    [][\A p \in Req :
          /\ (ChatChecked(p) /\ ~Truthy(state.student_email))
             => /\ req'[p].pc = "done"
                /\ req'[p].response = HttpError(400, "Sesión no iniciada")
                /\ req'[p].gen = NoCall
                /\ state'.history = state.history
                /\ state'.emotions = state.emotions
                /\ state'.situations = state.situations
                /\ state'.first_message = state.first_message
          /\ (CallIssued(p) \/ ReturnedReply(p))
             => /\ Truthy(state.student_email)
                /\ Len(state'.history) = Len(state.history) + 1]_vars

\* a chat sent before any welcome has been rejected and the session is as
\* constructed
C19_Witness ==
    \E p \in Req :
        /\ Returned(p) /\ req[p].kind = "chat"
        /\ req[p].response = HttpError(400, "Sesión no iniciada")
        /\ state = reset(0)
        /\ ~locks[0].locked

===========================================================================
